---- MODULE Spec2Model ----
(***************************************************************************)
(* Model of iss/error_model.py: phred/probability conversion, the basic    *)
(* (normal-distribution) error model and the kernel-density error model.   *)
(*                                                                         *)
(* Probabilities are fixed-point numbers with Digits decimals (an integer  *)
(* p stands for p / Scale).  The two global generators the code draws from *)
(* (random and numpy.random) are modelled as seeded streams: the n-th      *)
(* variate of a stream is a function of its seed.  A SeqRecord is its      *)
(* sequence and its "phred_quality" letter annotation.                     *)
(***************************************************************************)
EXTENDS Integers, Sequences, FiniteSets, TLC

\* ------------------------------------------------------------------ bounds
\* Longest record sequence, and largest read_length of a profile archive.
MaxLen == 2
\* random.seed(s) is called with s in 0..MaxPySeed.
MaxPySeed == 6
\* numpy.random.seed(s) is called with s in 0..MaxNpSeed.
MaxNpSeed == 2

\* --------------------------------------------------------------- constants
\* Decimals of the fixed-point probabilities: those of the clamp 0.9999.
Digits == 4
Scale == 10 ^ Digits
\* BasicErrorModel.__init__
BasicReadLength == 125
BasicInsertSize == 200
BasicQuality == 30
\* min(q, 0.9999)
MaxProb == 9999
\* np.random.normal(mean_quality, 0.01, ...): 0.01 in fixed point
StdDev == 100

Bases == {"A", "T", "C", "G"}
\* "N" stands for any symbol outside {A,T,C,G}.
Symbols == Bases \cup {"N"}
Orientations == {"forward", "reverse", "sideways"}

\* ------------------------------------------------------------------- state
VARIABLES
    py_seed,      \* the seed given to random.seed
    np_seed,      \* the seed given to numpy.random.seed
    py_n,         \* variates drawn from random since it was seeded
    np_n,         \* variates drawn from numpy.random since it was seeded
    nan_check,    \* what the installed numpy does with NaN probabilities:
                  \* "unobserved" until a call first depends on it
    model,        \* the error model instance ([kind |-> "none"]: none yet)
    given,        \* the record as the caller passed it to introduce_error_scores
    record,       \* the record after introduce_error_scores
    orientation,  \* the orientation argument of the read
    mutable_seq,  \* mut_sequence's mutable_seq when the call ended
    uniforms,     \* the variate random.random() returned at each position
    nan_seen,     \* subst_matrix_to_choices produced NaN probabilities
    exception,    \* the exception the last call raised, or "none"
    pc,           \* "start", "constructed", "annotated", "mutated"
    run,          \* 1, or 2 when the read is processed a second time
    reseeded,     \* the generators were re-seeded before the second run
    first         \* the outcome of the first run

vars ==
    <<py_seed, np_seed, py_n, np_n, nan_check, model, given, record,
      orientation, mutable_seq, uniforms, nan_seen, exception, pc, run,
      reseeded, first>>

\* ------------------------------------------------------------- arithmetic
RECURSIVE SumTo(_, _)
SumTo(s, k) == IF k = 0 THEN 0 ELSE s[k] + SumTo(s, k - 1)
Sum(s) == SumTo(s, Len(s))

Min(a, b) == IF a < b THEN a ELSE b

\* 10 ** (-r / 10) for r = 0..9, in fixed point.
Root10 == <<10000, 7943, 6310, 5012, 3981, 3162, 2512, 1995, 1585, 1259>>
\* 10 ** (-(r + 0.5) / 10) for r = 0..9, in fixed point: the values of 1 - p at
\* which round(-10 * log10(1 - p)) steps from r to r + 1.
HalfRoot10 == <<8913, 7079, 5623, 4467, 3548, 2818, 2239, 1778, 1413, 1122>>

\* phred_to_prob(q): 1 - 10 ** (-q / 10), for q >= 0.
phred_to_prob(q) == Scale - (Root10[(q % 10) + 1] \div (10 ^ (q \div 10)))

\* prob_to_phred(p): int(round(-10 * log10(1 - p))), for 0 <= p < 1: the number
\* of rounding steps k whose threshold 10 ** (-(k + 0.5) / 10) is >= 1 - p.
prob_to_phred(p) ==
    Cardinality({k \in 0..(10 * Digits + 9) :
        (Scale - p) * (10 ^ (k \div 10)) <= HalfRoot10[(k % 10) + 1]})

\* round(x) of a value given in tenths (Python 3 rounds halves to even).
Round(tenths) ==
    LET lo == tenths \div 10
        r  == tenths % 10
    IN  IF r < 5 THEN lo
        ELSE IF r > 5 THEN lo + 1
        ELSE IF lo % 2 = 0 THEN lo ELSE lo + 1

\* ------------------------------------------------------ random generators
\* The uniform variates in [0, 1) a generator can deliver, in fixed point.
DrawVals == <<1000, 5000, 9995>>

\* The n-th variate (n = 1, 2, ...) of a generator seeded with seed.
Generator(seed, n) ==
    DrawVals[(((seed \div 3) + (seed % 3) * n) % 3) + 1]

\* random.random() from a generator that random.seed does not reach: its
\* variates differ from one run to the next.
random_random_unseeded(seed, n) == Generator(seed + run, n)

\* random.random(): the n-th variate of the random module's generator.
random_random(seed, n) == Generator(seed, n)

\* numpy.random's n-th uniform variate (random_sample).
np_random_sample(seed, n) == Generator(seed, n)

\* random.choice(seq): seq[int(random() * len(seq))], u the variate drawn.
random_choice(seq, u) == seq[((u * Len(seq)) \div Scale) + 1]

\* The standard-normal quantile of u, in tenths (a coarse inverse CDF).
ZTenths(u) == IF u <= 1000 THEN -13 ELSE IF u <= 5000 THEN 0 ELSE 33

\* One variate of np.random.normal(mean, sd) from the uniform variate u.
np_random_normal(mean, sd, u) == mean + ((sd * ZTenths(u)) \div 10)

\* A probability count / total as the pair (num, den); den = 0 is the NaN
\* numpy's true division yields for 0 / 0.
Frac(num, den) == [num |-> num, den |-> den]
IsNaN(p) == \E k \in 1..Len(p) : p[k].den = 0

\* np.random.choice(a, p=p) with uniform variate u: the element at
\* cdf.searchsorted(u, side='right'), cdf the cumulative sums of p.  When p
\* holds NaN the outcome depends on the numpy installed (nan_check): releases
\* that test for NaN raise ValueError("probabilities contain NaN"); earlier
\* ones pass every test (comparisons with NaN are false), draw, and return
\* a[0] because NaN orders after every number in searchsorted.
np_random_choice(a, p, u, nc) ==
    IF Len(a) # Len(p)
    THEN [error |-> "ValueError", value |-> "", drew |-> FALSE, nan |-> FALSE]
    ELSE IF IsNaN(p)
    THEN IF nc = "raises"
         THEN [error |-> "ValueError", value |-> "", drew |-> FALSE, nan |-> TRUE]
         ELSE [error |-> "none", value |-> a[1], drew |-> TRUE, nan |-> TRUE]
    ELSE LET nums == [k \in 1..Len(p) |-> p[k].num]
             den  == p[1].den
             idx  == Cardinality({k \in 1..Len(p) : SumTo(nums, k) * Scale <= u * den})
         IN  [error |-> "none", value |-> a[idx + 1], drew |-> TRUE, nan |-> FALSE]

\* ------------------------------------------------------- BasicErrorModel
\* BasicErrorModel.__init__
BasicModel ==
    [kind |-> "basic", read_length |-> BasicReadLength,
     insert_size |-> BasicInsertSize, quality |-> BasicQuality]

\* BasicErrorModel.gen_phred_scores(mean_quality): read_length normal variates
\* (numpy variates n0+1 .. n0+read_length), clamped, converted to phred.
Basic_gen_phred_scores(read_length, mean_quality, seed, n0) ==
    [i \in 1..read_length |->
        prob_to_phred(Min(np_random_normal(mean_quality, StdDev,
                                           np_random_sample(seed, n0 + i)),
                          MaxProb))]

\* nucl_choices with A listed among its own alternatives.
Basic_nucl_choices_self ==
    [b \in Bases |->
        CASE b = "A" -> <<"A", "C", "G">>
          [] b = "T" -> <<"A", "C", "G">>
          [] b = "C" -> <<"A", "T", "G">>
          [] b = "G" -> <<"A", "T", "C">>]

\* nucl_choices of BasicErrorModel.mut_sequence
Basic_nucl_choices ==
    [b \in Bases |->
        CASE b = "A" -> <<"T", "C", "G">>
          [] b = "T" -> <<"A", "C", "G">>
          [] b = "C" -> <<"A", "T", "G">>
          [] b = "G" -> <<"A", "T", "C">>]

\* position left where it is.
NextPosition_stuck(position) == position

\* position += 1
NextPosition(position) == position + 1

\* The comparison random.random() > phred_to_prob(qual).
Miscall(u, qual) == u > phred_to_prob(qual)

\* One iteration of the loop of BasicErrorModel.mut_sequence.  st.i is the
\* index zip() has reached, st.position the local variable position.
Basic_mut_step(st, quality_list, py_s) ==
    LET nucl  == st.mseq[st.i]
        qual  == quality_list[st.i]
        u     == random_random(py_s, st.py_n + 1)
        drawn == [st EXCEPT !.py_n = @ + 1, !.uniforms = Append(@, u)]
        next  == [drawn EXCEPT !.i = @ + 1, !.position = NextPosition(@)]
    IN  IF ~Miscall(u, qual) THEN next
        ELSE IF nucl \notin DOMAIN Basic_nucl_choices
        THEN [drawn EXCEPT !.exception = "KeyError(nucl)"]
        ELSE [next EXCEPT !.py_n = @ + 1,
                 !.mseq[st.position + 1] =
                     random_choice(Basic_nucl_choices[nucl],
                                   random_random(py_s, st.py_n + 2))]

RECURSIVE Basic_mut_loop(_, _, _)
Basic_mut_loop(st, quality_list, py_s) ==
    IF st.exception # "none" \/ st.i > Min(Len(st.mseq), Len(quality_list))
    THEN st
    ELSE Basic_mut_loop(Basic_mut_step(st, quality_list, py_s),
                        quality_list, py_s)

\* ----------------------------------------------- KernelDensityErrorModel
\* The keys KernelDensityErrorModel.__init__ reads from the archive.
RequiredKeys ==
    {"read_length", "insert_size", "quality_hist_forward",
     "quality_hist_reverse", "subst_matrix_forward", "subst_matrix_reverse"}

\* A Python slice s[lo:hi] of a 0-indexed sequence.
Slice(s, lo, hi) == SubSeq(s, lo + 1, hi)

\* The slices of the 16 counts subst_matrix_to_choices reads for a base:
\* [1:4], [5:8], [9:12], [13:].
AltCounts(v, b) ==
    CASE b = "A" -> Slice(v, 1, 4)
      [] b = "T" -> Slice(v, 5, 8)
      [] b = "C" -> Slice(v, 9, 12)
      [] b = "G" -> Slice(v, 13, Len(v))

\* The labels with U written for T among G's alternatives.
KDE_labels_rna ==
    [b \in Bases |->
        CASE b = "A" -> <<"T", "C", "G">>
          [] b = "T" -> <<"A", "C", "G">>
          [] b = "C" -> <<"A", "T", "G">>
          [] b = "G" -> <<"A", "U", "C">>]

\* The labels subst_matrix_to_choices pairs with the slices.
KDE_labels ==
    [b \in Bases |->
        CASE b = "A" -> <<"T", "C", "G">>
          [] b = "T" -> <<"A", "C", "G">>
          [] b = "C" -> <<"A", "T", "G">>
          [] b = "G" -> <<"A", "T", "C">>]

\* subst_matrix_to_choices(subst_dispatch_dict): for every base the labels
\* and the counts divided by their sum.
subst_matrix_to_choices(v) ==
    [b \in Bases |->
        LET counts == AltCounts(v, b)
        IN  [labels |-> KDE_labels[b],
             probs  |-> [k \in 1..Len(counts) |-> Frac(counts[k], Sum(counts))]]]

\* KernelDensityErrorModel.gen_phred_scores(histograms): one np.random.choice
\* per histogram; acc threads the list, the variates used and any exception.
RECURSIVE KDE_gen_phred_scores(_, _, _, _, _)
KDE_gen_phred_scores(histograms, k, acc, np_s, nc) ==
    IF k > Len(histograms) \/ acc.exception # "none" THEN acc
    ELSE LET hist    == histograms[k]
             values  == hist.values
             indices == hist.indices
             weights == [j \in 1..Len(values) |-> Frac(values[j], Sum(values))]
             c == np_random_choice(Slice(indices, 1, Len(indices)), weights,
                                   np_random_sample(np_s, acc.np_n + 1), nc)
             nxt == [acc EXCEPT
                        !.np_n = IF c.drew THEN @ + 1 ELSE @,
                        !.nan_hit = @ \/ c.nan,
                        !.exception = c.error,
                        !.phred_list = IF c.error = "none"
                                       THEN Append(@, Round(c.value)) ELSE @]
         IN  KDE_gen_phred_scores(histograms, k + 1, nxt, np_s, nc)

\* The table mut_sequence selects, or <<"unbound">> when neither branch of the
\* if/elif assigns subst_matrix.
KDE_subst_matrix(self, o) ==
    IF o = "forward" THEN <<"bound", self.subst_matrix_forward>>
    ELSE IF o = "reverse" THEN <<"bound", self.subst_matrix_reverse>>
    ELSE <<"unbound", <<>>>>

\* One iteration of the loop of KernelDensityErrorModel.mut_sequence.
KDE_mut_step(st, quality_list, sm, py_s, np_s, nc) ==
    LET nucl == st.mseq[st.i]
        qual == quality_list[st.i]
    IN  IF sm[1] = "unbound"
        THEN [st EXCEPT !.exception = "UnboundLocalError"]
        ELSE IF st.position + 1 > Len(sm[2])
        THEN [st EXCEPT !.exception = "IndexError"]
        ELSE
        LET nucl_choices == subst_matrix_to_choices(sm[2][st.position + 1])
            u    == random_random(py_s, st.py_n + 1)
            drawn == [st EXCEPT !.py_n = @ + 1, !.uniforms = Append(@, u),
                         !.nan_seen = @ \/ (\E b \in Bases : IsNaN(nucl_choices[b].probs))]
            next == [drawn EXCEPT !.i = @ + 1, !.position = NextPosition(@)]
        IN  IF ~Miscall(u, qual) THEN next
            ELSE IF nucl \notin DOMAIN nucl_choices
            THEN [drawn EXCEPT !.exception = "KeyError(nucl)"]
            ELSE LET c == np_random_choice(nucl_choices[nucl].labels,
                                           nucl_choices[nucl].probs,
                                           np_random_sample(np_s, st.np_n + 1), nc)
                 IN  IF c.error # "none"
                     THEN [drawn EXCEPT !.exception = c.error, !.nan_hit = @ \/ c.nan]
                     ELSE [next EXCEPT !.np_n = @ + 1, !.nan_hit = @ \/ c.nan,
                                       !.mseq[st.position + 1] = c.value]

RECURSIVE KDE_mut_loop(_, _, _, _, _, _)
KDE_mut_loop(st, quality_list, sm, py_s, np_s, nc) ==
    IF st.exception # "none" \/ st.i > Min(Len(st.mseq), Len(quality_list))
    THEN st
    ELSE KDE_mut_loop(KDE_mut_step(st, quality_list, sm, py_s, np_s, nc),
                      quality_list, sm, py_s, np_s, nc)

\* ------------------------------------------------------------------ inputs
\* Quality histograms (values, indices) as np.histogram yields them; the bin
\* edges are in tenths: 2.5 and 30.0, 10.5 and 19.5.
HistLow == [values |-> <<3, 1>>, indices |-> <<0, 25, 300>>]
HistMid == [values |-> <<1, 1>>, indices |-> <<0, 105, 195>>]

\* Substitution count vectors: 4 groups of (same-base count, 3 alternatives).
\* VecG: A's alternatives are (0, 0, 100).  VecZero: T's are all zero.
VecG    == <<50, 0, 0, 100,  50, 1, 2, 1,  50, 1, 1, 2,  50, 3, 0, 1>>
VecUni  == << 9, 1, 1, 1,     9, 1, 1, 1,   9, 1, 1, 1,   9, 1, 1, 1>>
VecZero == << 7, 1, 2, 1,     7, 0, 0, 0,   7, 2, 1, 1,   7, 1, 1, 2>>

ForwardHist(i) == IF i % 2 = 1 THEN HistLow ELSE HistMid
ReverseHist(i) == IF i % 2 = 1 THEN HistMid ELSE HistLow
ForwardVec(i) == <<VecG, VecUni, VecZero>>[((i - 1) % 3) + 1]
ReverseVec(i) == <<VecZero, VecG, VecUni>>[((i - 1) % 3) + 1]

\* Which table of an archive is one row short of read_length, if any.
ShortKinds ==
    {"none", "quality_hist_forward", "quality_hist_reverse",
     "subst_matrix_forward", "subst_matrix_reverse"}

\* A profile archive with read_length n whose table `short` has n - 1 rows.
Archive(n, short) ==
    LET len(key) == IF short = key THEN n - 1 ELSE n
    IN  [read_length |-> n,
         insert_size |-> 300,
         quality_hist_forward |->
             [i \in 1..len("quality_hist_forward") |-> ForwardHist(i)],
         quality_hist_reverse |->
             [i \in 1..len("quality_hist_reverse") |-> ReverseHist(i)],
         subst_matrix_forward |->
             [i \in 1..len("subst_matrix_forward") |-> ForwardVec(i)],
         subst_matrix_reverse |->
             [i \in 1..len("subst_matrix_reverse") |-> ReverseVec(i)]]

\* An archive with one key removed.
Without(archive, key) == [k \in (DOMAIN archive) \ {key} |-> archive[k]]

\* The archives given to the constructor: consistent ones of every read
\* length, ones with a short table, and ones with a key missing.
Archives ==
    {Archive(n, "none") : n \in 1..MaxLen}
    \cup {Archive(MaxLen, short) : short \in ShortKinds}
    \cup {Without(Archive(1, "none"), key) : key \in RequiredKeys}

\* The keys a ProfileLoadError is specified for are all there.
HasKeys(archive) == RequiredKeys \subseteq DOMAIN archive

\* Every table of a loaded profile has read_length rows.
Consistent(profile) ==
    \A key \in RequiredKeys \ {"read_length", "insert_size"} :
        Len(profile[key]) = profile.read_length

\* The records a caller passes in: a sequence (every symbol repeated, or the
\* symbols in rotation from every start), with or without an earlier
\* phred_quality annotation (quality 2 at every position).
SymbolOrder == <<"A", "T", "C", "G", "N">>
RecordSeqs ==
    {[i \in 1..n |-> SymbolOrder[((k + d * (i - 1)) % 5) + 1]] :
        n \in 1..MaxLen, k \in 0..4, d \in 0..1}
GivenRecords ==
    {[seq |-> s, has_quality |-> h,
      phred_quality |-> IF h THEN [i \in 1..Len(s) |-> 2] ELSE <<>>] :
        s \in RecordSeqs, h \in BOOLEAN}

\* ---------------------------------------------------------- initial state
NoRecord == [seq |-> <<>>, has_quality |-> FALSE, phred_quality |-> <<>>]

NoOutcome ==
    [record |-> NoRecord, mutable_seq |-> <<>>, exception |-> "none",
     uniforms |-> <<>>]

Init ==
    /\ py_seed \in 0..MaxPySeed
    /\ np_seed \in 0..MaxNpSeed
    /\ py_n = 0
    /\ np_n = 0
    /\ nan_check = "unobserved"
    /\ model = [kind |-> "none"]
    /\ given = NoRecord
    /\ record = NoRecord
    /\ orientation = "none"
    /\ mutable_seq = <<>>
    /\ uniforms = <<>>
    /\ nan_seen = FALSE
    /\ exception = "none"
    /\ pc = "start"
    /\ run = 1
    /\ reseeded = FALSE
    /\ first = NoOutcome

\* The behaviours of numpy a call may meet: any while unobserved, then fixed.
NanOptions ==
    IF nan_check = "unobserved" THEN {"raises", "ignored"} ELSE {nan_check}

\* mut_sequence's locals on entry to its loop.
LoopStart(seq) ==
    [i |-> 1, position |-> 0, mseq |-> seq, py_n |-> py_n, np_n |-> np_n,
     uniforms |-> <<>>, exception |-> "none", nan_hit |-> FALSE,
     nan_seen |-> FALSE]

\* ----------------------------------------------------------------- actions
\* BasicErrorModel()
BasicErrorModel_init ==
    /\ pc = "start"
    /\ model' = BasicModel
    /\ pc' = "constructed"
    /\ UNCHANGED <<py_seed, np_seed, py_n, np_n, nan_check, given, record,
                   orientation, mutable_seq, uniforms, nan_seen, exception,
                   run, reseeded, first>>

\* KernelDensityErrorModel(npz_path): np.load, then one archive lookup per
\* attribute; a missing key raises KeyError out of the constructor.
KernelDensityErrorModel_init(archive) ==
    /\ pc = "start"
    /\ IF HasKeys(archive)
       THEN /\ model' = [kind |-> "kde",
                         read_length |-> archive.read_length,
                         insert_size |-> archive.insert_size,
                         quality_hist_forward |-> archive.quality_hist_forward,
                         quality_hist_reverse |-> archive.quality_hist_reverse,
                         subst_matrix_forward |-> archive.subst_matrix_forward,
                         subst_matrix_reverse |-> archive.subst_matrix_reverse]
            /\ exception' = "none"
       ELSE /\ model' = model
            /\ exception' = "KeyError(key)"
    /\ pc' = "constructed"
    /\ UNCHANGED <<py_seed, np_seed, py_n, np_n, nan_check, given, record,
                   orientation, mutable_seq, uniforms, nan_seen, run, reseeded,
                   first>>

\* A second run processes the read of the first.
SameRead(rec, o) == run = 2 => (rec = given /\ o = orientation)

\* BasicErrorModel.introduce_error_scores(record, orientation)
Basic_introduce_error_scores(rec, o) ==
    /\ pc = "constructed"
    /\ exception = "none"
    /\ model.kind = "basic"
    /\ SameRead(rec, o)
    /\ given' = rec
    /\ orientation' = o
    /\ record' = [rec EXCEPT
                     !.has_quality = TRUE,
                     !.phred_quality =
                         Basic_gen_phred_scores(model.read_length,
                             phred_to_prob(model.quality), np_seed, np_n)]
    /\ np_n' = np_n + model.read_length
    /\ pc' = "annotated"
    /\ UNCHANGED <<py_seed, np_seed, py_n, nan_check, model, mutable_seq,
                   uniforms, nan_seen, exception, run, reseeded, first>>

\* KernelDensityErrorModel.introduce_error_scores(record, orientation): any
\* orientation but "forward" and "reverse" prints and returns the record.
KDE_introduce_error_scores(rec, o) ==
    /\ pc = "constructed"
    /\ exception = "none"
    /\ model.kind = "kde"
    /\ SameRead(rec, o)
    /\ given' = rec
    /\ orientation' = o
    /\ IF o \in {"forward", "reverse"}
       THEN \E nc \in NanOptions :
            \E g \in {KDE_gen_phred_scores(
                         IF o = "forward" THEN model.quality_hist_forward
                         ELSE model.quality_hist_reverse,
                         1, [phred_list |-> <<>>, np_n |-> np_n,
                             exception |-> "none", nan_hit |-> FALSE],
                         np_seed, nc)} :
                /\ record' = IF g.exception = "none"
                             THEN [rec EXCEPT !.has_quality = TRUE,
                                              !.phred_quality = g.phred_list]
                             ELSE rec
                /\ np_n' = g.np_n
                /\ exception' = g.exception
                /\ nan_check' = IF g.nan_hit THEN nc ELSE nan_check
       ELSE /\ record' = rec
            /\ UNCHANGED <<np_n, exception, nan_check>>
    /\ pc' = "annotated"
    /\ UNCHANGED <<py_seed, np_seed, py_n, model, mutable_seq, uniforms,
                   nan_seen, run, reseeded, first>>

\* BasicErrorModel.mut_sequence(record, orientation)
Basic_mut_sequence ==
    /\ pc = "annotated"
    /\ exception = "none"
    /\ model.kind = "basic"
    /\ \E st \in {IF record.has_quality
                  THEN Basic_mut_loop(LoopStart(record.seq),
                                      record.phred_quality, py_seed)
                  ELSE [LoopStart(record.seq) EXCEPT
                           !.exception = "KeyError(phred_quality)"]} :
           /\ mutable_seq' = st.mseq
           /\ uniforms' = st.uniforms
           /\ exception' = st.exception
           /\ py_n' = st.py_n
    /\ pc' = "mutated"
    /\ UNCHANGED <<py_seed, np_seed, np_n, nan_check, model, given, record,
                   orientation, nan_seen, run, reseeded, first>>

\* KernelDensityErrorModel.mut_sequence(record, orientation): the orientation
\* test comes first, then the annotation lookup, then the loop.
KDE_mut_sequence ==
    /\ pc = "annotated"
    /\ exception = "none"
    /\ model.kind = "kde"
    /\ \E nc \in NanOptions :
       \E st \in {IF record.has_quality
                  THEN KDE_mut_loop(LoopStart(record.seq), record.phred_quality,
                                    KDE_subst_matrix(model, orientation),
                                    py_seed, np_seed, nc)
                  ELSE [LoopStart(record.seq) EXCEPT
                           !.exception = "KeyError(phred_quality)"]} :
           /\ mutable_seq' = st.mseq
           /\ uniforms' = st.uniforms
           /\ exception' = st.exception
           /\ py_n' = st.py_n
           /\ np_n' = st.np_n
           /\ nan_seen' = st.nan_seen
           /\ nan_check' = IF st.nan_hit THEN nc ELSE nan_check
    /\ pc' = "mutated"
    /\ UNCHANGED <<py_seed, np_seed, model, given, record, orientation,
                   run, reseeded, first>>

\* The caller processes the same read again with the same model, after
\* re-seeding both generators with the same seeds (reseed) or without.
Again(reseed) ==
    /\ pc = "mutated"
    /\ run = 1
    /\ first' = [record |-> record, mutable_seq |-> mutable_seq,
                 exception |-> exception, uniforms |-> uniforms]
    /\ run' = 2
    /\ reseeded' = reseed
    /\ py_n' = IF reseed THEN 0 ELSE py_n
    /\ np_n' = IF reseed THEN 0 ELSE np_n
    /\ record' = given
    /\ mutable_seq' = <<>>
    /\ uniforms' = <<>>
    /\ nan_seen' = FALSE
    /\ exception' = "none"
    /\ pc' = "constructed"
    /\ UNCHANGED <<py_seed, np_seed, nan_check, model, given, orientation>>

Next ==
    \/ BasicErrorModel_init
    \/ \E archive \in Archives : KernelDensityErrorModel_init(archive)
    \/ \E rec \in GivenRecords, o \in Orientations :
           Basic_introduce_error_scores(rec, o)
    \/ \E rec \in GivenRecords, o \in Orientations :
           KDE_introduce_error_scores(rec, o)
    \/ Basic_mut_sequence
    \/ KDE_mut_sequence

Spec == Init /\ [][Next]_vars

\* The read is processed twice, the generators re-seeded in between.
Reseed == Again(TRUE)
SpecReseed == Init /\ [][Next \/ Reseed]_vars

\* The read is processed twice from the one stream of variates.
Recall == Again(FALSE)
SpecRecall == Init /\ [][Next \/ Recall]_vars

\* ------------------------------------------------------------- properties
ValidOrientation == orientation \in {"forward", "reverse"}

\* mut_sequence returned a sequence.
Returned == pc = "mutated" /\ exception = "none"

\* The loop of mut_sequence drew a variate for position i (1-based) and it
\* exceeded phred_to_prob of the quality there.
Exceeds(i) ==
    /\ i <= Len(uniforms)
    /\ uniforms[i] > phred_to_prob(record.phred_quality[i])

\* The iteration of position i ran to its end.
Completed(i) == i < Len(uniforms) \/ (i = Len(uniforms) /\ exception = "none")

\* The substitution vector the kernel-density model holds for position i of
\* the read's orientation.
VectorAt(i) ==
    IF orientation = "forward" THEN model.subst_matrix_forward[i]
    ELSE model.subst_matrix_reverse[i]

\* The count of the substitution b -> t in a vector: four groups, one per
\* source base in the order A, T, C, G, each the same-base count followed by
\* the counts of the three other bases in that order.
GroupOf(b) == CASE b = "A" -> 0 [] b = "T" -> 1 [] b = "C" -> 2 [] b = "G" -> 3
TargetCount(v, b, t) ==
    LET rank == Cardinality({x \in Bases : x # b /\ GroupOf(x) <= GroupOf(t)})
    IN  v[4 * GroupOf(b) + 1 + rank]

\* All three alternative counts of some source base are zero.
Degenerate(v) ==
    \E b \in Bases : \A t \in Bases \ {b} : TargetCount(v, b, t) = 0

\* C1: in the kernel-density model a call of introduce_error_scores or
\* mut_sequence with an orientation other than "forward" and "reverse" ends
\* in an InvalidOrientationError.
C1_InvalidOrientationAborts ==
    (/\ model.kind = "kde"
     /\ pc \in {"annotated", "mutated"}
     /\ ~ValidOrientation)
    => exception = "InvalidOrientationError"

\* C2: when mut_sequence of the kernel-density model meets a vector with an
\* all-zero row, it computes no NaN probabilities and raises no numeric
\* exception.
C2_DegenerateHandled ==
    (/\ model.kind = "kde"
     /\ pc = "mutated"
     /\ ValidOrientation
     /\ \E i \in 1..Len(uniforms) : Degenerate(VectorAt(i)))
    => (~nan_seen /\ exception # "ValueError")

\* C3: the constructor of the kernel-density model ends in a
\* ProfileLoadError when a key is missing (never in a KeyError), and no model
\* exists whose tables do not all have read_length rows.
C3_ProfileLoadError ==
    /\ exception # "KeyError(key)"
    /\ model.kind = "kde" => Consistent(model)

\* C4: after introduce_error_scores with orientation "forward" or "reverse"
\* the quality list has read_length entries, in both models.
C4_LengthInvariant ==
    (/\ pc = "annotated"
     /\ ValidOrientation
     /\ exception = "none")
    => Len(record.phred_quality) = model.read_length

\* C5: at every position where mut_sequence decided a substitution of a base
\* in {A,T,C,G}, the base it wrote differs from the original one.
C5_NoSelfSubstitution ==
    pc = "mutated" =>
        \A i \in 1..Len(uniforms) :
            (Exceeds(i) /\ Completed(i) /\ record.seq[i] \in Bases)
            => mutable_seq[i] # record.seq[i]

C5_Witness ==
    /\ Returned
    /\ model.kind = "basic"
    /\ Len(record.seq) = 2
    /\ ~Exceeds(1)
    /\ Exceeds(2)
    /\ record.seq[2] = "A"
    /\ mutable_seq[2] = "T"

\* C6: the sequence mut_sequence returns has the length of its input, one
\* variate is drawn per position, and every position whose variate does not
\* exceed phred_to_prob of its quality holds the input base.
C6_FrameEffect ==
    Returned =>
        /\ Len(mutable_seq) = Len(record.seq)
        /\ Len(uniforms) = Min(Len(record.seq), Len(record.phred_quality))
        /\ \A i \in 1..Len(record.seq) :
               ~Exceeds(i) => mutable_seq[i] = record.seq[i]

C6_Witness ==
    /\ Returned
    /\ model.kind = "kde"
    /\ Len(record.seq) = 2
    /\ ~Exceeds(1)
    /\ Exceeds(2)
    /\ mutable_seq[1] = record.seq[1]
    /\ mutable_seq[2] # record.seq[2]

\* C7: in the kernel-density model the base written at a position has a
\* non-zero count among the alternatives of the source base in the vector of
\* the read's orientation at that position.
C7_EmpiricalWeighting ==
    (/\ model.kind = "kde"
     /\ pc = "mutated"
     /\ ValidOrientation)
    => \A i \in 1..Len(uniforms) :
           (Exceeds(i) /\ Completed(i) /\ record.seq[i] \in Bases)
           => TargetCount(VectorAt(i), record.seq[i], mutable_seq[i]) > 0

\* C8: for a sequence over {A,T,C,G}, mut_sequence leaves only symbols of
\* {A,T,C,G} in the sequence it builds, in both models.
C8_AlphabetClosure ==
    (/\ pc = "mutated"
     /\ \A i \in 1..Len(record.seq) : record.seq[i] \in Bases)
    => \A i \in 1..Len(mutable_seq) : mutable_seq[i] \in Bases

C8_Witness ==
    /\ Returned
    /\ model.kind = "kde"
    /\ Len(record.seq) = 2
    /\ \A i \in 1..2 : record.seq[i] \in Bases /\ Exceeds(i)
    /\ mutable_seq[1] # record.seq[1]
    /\ mutable_seq[2] # record.seq[2]

\* How a run treated a sequence holding a symbol outside {A,T,C,G}.
Rejected(exc) == exc \in {"UnsupportedBase", "KeyError(nucl)"}
PassedThrough(exc, out) ==
    /\ exc = "none"
    /\ \A i \in 1..Len(given.seq) :
           given.seq[i] \notin Bases => out[i] = given.seq[i]

\* C9: two mut_sequence calls on the same sequence holding a symbol outside
\* {A,T,C,G} treat it alike: both reject it or both pass it through.
C9_ConsistentUnsupported ==
    (/\ run = 2
     /\ pc = "mutated"
     /\ \E i \in 1..Len(given.seq) : given.seq[i] \notin Bases
     /\ first.exception \in {"none", "UnsupportedBase", "KeyError(nucl)"}
     /\ exception \in {"none", "UnsupportedBase", "KeyError(nucl)"})
    => \/ Rejected(first.exception) /\ Rejected(exception)
       \/ /\ PassedThrough(first.exception, first.mutable_seq)
          /\ PassedThrough(exception, mutable_seq)

====
